---- MODULE Spec2Model ----
(***************************************************************************)
(* A model of these parts of coc-explorer:                                  *)
(*                                                                         *)
(*   - FloatingFactory3 (src/floating/floatingFactory3.ts): the factory of *)
(*     the preview popup.  create() and close() are async functions; each  *)
(*     call is a process whose position (pc) is the await it is suspended  *)
(*     at.  The host editor answers the requests of one channel in the     *)
(*     order they were sent, so the requests in flight are a FIFO queue    *)
(*     (hostq); an answer runs the waiting call up to its next await in    *)
(*     one step, as the JavaScript event loop does.                        *)
(*   - the file source's 'readonly' child column and the buffer source's   *)
(*     'fullpath' child column (column drawing on a row).                  *)
(*   - PresetList (listing of the presets and the 'do' action).            *)
(*   - FloatingFactory3.getWindowConfig's choice of alignTop.              *)
(***************************************************************************)
EXTENDS Integers, Sequences, FiniteSets, TLC

\* ------------------------------------------------------------------ bounds
\* Number of create()/close() calls made on the factory.
MaxCalls == 4

Calls == 1..MaxCalls
\* Window ids the host can hand out: at most one new window per call.
WinIds == 1..MaxCalls
\* Buffer numbers the host may report as the buffer the cursor is in.
TargetBufnrs == {101, 102}

VARIABLES
  supported,      \* supportedFloat()
  winid,          \* this.winid (0: no popup)
  bufnr,          \* this.bufnr (0: no buffer yet)
  targetBufnr,    \* this.targetBufnr (0: unset)
  tokenSource,    \* this.tokenSource: the call that made it (0: undefined)
  floatBuffer,    \* this.floatBuffer's lines: the call whose docs they are (0: none)
  kind,           \* per call: "none" (not made yet), "create", "close"
  docsEmpty,      \* per create() call: docs is empty or all contents are empty
  pc,             \* per call: the await it is suspended at
  cancelledBy,    \* per call: the call that cancelled its token (0: not cancelled)
  hostq,          \* requests sent to the host and not answered yet, in order
  wins,           \* host: the open float windows
  winBuf,         \* host: the buffer of each window (0: window never made)
  bufLines,       \* host: the lines in each buffer, as the call whose docs they are
  nextWin,        \* host: the next window id
  openedWin,      \* history: the window a call recorded from create_float_win
  closeRequested, \* history: windows a coc#util#close_win request was sent for
  calledClose,    \* history: calls that called this.close()
  threw           \* history: create() calls whose createPopup threw

fvars == <<supported, winid, bufnr, targetBufnr, tokenSource, floatBuffer, kind,
           docsEmpty, pc, cancelledBy, hostq, wins, winBuf, bufLines, nextWin,
           openedWin, closeRequested, calledClose, threw>>

VARIABLES
  enabledNerdFont, \* source.config.get('icon.enableNerdfont'), read by draw()
  node,            \* the node being drawn: [readonly, fullpath]
  row,             \* the row being drawn: the cells added so far, [content, hl]
  columns          \* history: the columns drawn on the row so far

cvars == <<enabledNerdFont, node, row, columns>>

VARIABLES
  presets,         \* getPresets(configLocal()): the dictionary, as its entries in key order
  items,           \* the list items loadItems returned last
  loadedFrom,      \* history: the dictionary loadItems read
  commands,        \* the commands given to nvim.command, in order
  chosen           \* history: the names of the items 'do' was run on, in order

pvars == <<presets, items, loadedFrom, commands, chosen>>

VARIABLES
  preferTop,       \* this.preferTop
  maxHeight,       \* this.maxHeight (0: not set, falsy)
  lines,           \* this.lines: env.lines - env.cmdheight - 1
  winRow,          \* win_position[0]
  previewHeight,   \* the height FloatBuffer.getDimension returned
  alignTop,        \* this.alignTop
  gpc              \* "start" before getWindowConfig, "done" after

gvars == <<preferTop, maxHeight, lines, winRow, previewHeight, alignTop, gpc>>

vars == <<fvars, cvars, pvars, gvars>>

Request(c, req, w, b, l) == [call |-> c, req |-> req, win |-> w, buf |-> b, lines |-> l]

\* Each part is checked alone; these are the other parts at rest.
FactoryIdle ==
  /\ supported = TRUE
  /\ winid = 0 /\ bufnr = 0 /\ targetBufnr = 0 /\ tokenSource = 0 /\ floatBuffer = 0
  /\ kind = [c \in Calls |-> "none"]
  /\ docsEmpty = [c \in Calls |-> FALSE]
  /\ pc = [c \in Calls |-> "idle"]
  /\ cancelledBy = [c \in Calls |-> 0]
  /\ hostq = << >>
  /\ wins = {} /\ winBuf = [w \in WinIds |-> 0] /\ bufLines = [b \in WinIds |-> 0]
  /\ nextWin = 1
  /\ openedWin = [c \in Calls |-> 0]
  /\ closeRequested = {} /\ calledClose = {} /\ threw = {}

ColumnIdle ==
  /\ enabledNerdFont = FALSE
  /\ node = [readonly |-> FALSE, fullpath |-> ""]
  /\ row = << >>
  /\ columns = << >>

PresetIdle ==
  /\ presets = << >>
  /\ items = << >>
  /\ loadedFrom = << >>
  /\ commands = << >>
  /\ chosen = << >>

GeometryIdle ==
  /\ preferTop = FALSE /\ maxHeight = 0 /\ lines = 0 /\ winRow = 0
  /\ previewHeight = 0 /\ alignTop = FALSE /\ gpc = "start"

\* ------------------------------------------------- FloatingFactory3: helpers

\* cancel(): the token of this.tokenSource, if any, is cancelled (by call c).
\* The caller also sets tokenSource (to undefined, or to a new source).
Cancel(c) ==
  IF tokenSource # 0 THEN [cancelledBy EXCEPT ![tokenSource] = c] ELSE cancelledBy

\* token.isCancellationRequested of call c's token.
IsCancelled(c) == cancelledBy[c] # 0

\* close() that sends the request of an open popup but leaves this.winid.
CloseKeepsWinid(c, q) ==
  /\ cancelledBy' = Cancel(c)
  /\ tokenSource' = 0
  /\ calledClose' = calledClose \cup {c}
  /\ UNCHANGED winid
  /\ IF winid # 0
       THEN /\ hostq' = Append(q, Request(c, "close_win", winid, 0, 0))
            /\ closeRequested' = closeRequested \cup {winid}
            /\ pc' = [pc EXCEPT ![c] = "closing"]
       ELSE /\ hostq' = q
            /\ pc' = [pc EXCEPT ![c] = "done"]
            /\ UNCHANGED closeRequested

\* close(), called by call c with q the requests still in flight.  With a
\* popup recorded, the batch [coc#util#close_win(winid), redraw] is sent by
\* resumeNotification and close() awaits its answer; every caller returns
\* right after close() does.
Close(c, q) ==
  /\ cancelledBy' = Cancel(c)
  /\ tokenSource' = 0
  /\ calledClose' = calledClose \cup {c}
  /\ IF winid # 0
       THEN /\ hostq' = Append(q, Request(c, "close_win", winid, 0, 0))
            /\ closeRequested' = closeRequested \cup {winid}
            /\ winid' = 0
            /\ pc' = [pc EXCEPT ![c] = "closing"]
       ELSE /\ hostq' = q
            /\ pc' = [pc EXCEPT ![c] = "done"]
            /\ UNCHANGED <<closeRequested, winid>>

\* The calls are made in the order of their ids.
CanCall(c) == pc[c] = "idle" /\ (IF c = 1 THEN TRUE ELSE pc[c - 1] # "idle")

\* The request the host answers next belongs to call c and is a req.
Answering(c, req) ==
  /\ hostq # << >>
  /\ Head(hostq).call = c
  /\ Head(hostq).req = req

hostvars == <<wins, winBuf, bufLines, nextWin>>

\* ------------------------------------------------- FloatingFactory3: actions

FactoryInit ==
  /\ supported \in BOOLEAN
  /\ winid = 0
  /\ bufnr = 0
  /\ targetBufnr = 0
  /\ tokenSource = 0
  /\ floatBuffer = 0
  /\ kind = [c \in Calls |-> "none"]
  /\ docsEmpty = [c \in Calls |-> FALSE]
  /\ pc = [c \in Calls |-> "idle"]
  /\ cancelledBy = [c \in Calls |-> 0]
  /\ hostq = << >>
  /\ wins = {}
  /\ winBuf = [w \in WinIds |-> 0]
  /\ bufLines = [b \in WinIds |-> 0]
  /\ nextWin = 1
  /\ openedWin = [c \in Calls |-> 0]
  /\ closeRequested = {}
  /\ calledClose = {}
  /\ threw = {}

\* create() without its own check of docs: nothing to show is left to
\* createPopup.
CreateNoEmptyCheck(c, empty) ==
  /\ CanCall(c)
  /\ kind' = [kind EXCEPT ![c] = "create"]
  /\ docsEmpty' = [docsEmpty EXCEPT ![c] = empty]
  /\ IF ~supported
       THEN /\ pc' = [pc EXCEPT ![c] = "done"]
            /\ UNCHANGED <<cancelledBy, tokenSource, calledClose, hostq>>
       ELSE /\ cancelledBy' = Cancel(c)
            /\ tokenSource' = c
            /\ hostq' = Append(hostq, Request(c, "get_float_mode", 0, 0, 0))
            /\ pc' = [pc EXCEPT ![c] = "get_float_mode"]
            /\ UNCHANGED calledClose
  /\ UNCHANGED <<supported, winid, bufnr, targetBufnr, floatBuffer, openedWin,
                 closeRequested, threw>>
  /\ UNCHANGED hostvars
  /\ UNCHANGED <<cvars, pvars, gvars>>

\* create(docs): up to the first await of createPopup (or of close()).
Create(c, empty) ==
  /\ CanCall(c)
  /\ kind' = [kind EXCEPT ![c] = "create"]
  /\ docsEmpty' = [docsEmpty EXCEPT ![c] = empty]
  /\ IF ~supported
       THEN /\ pc' = [pc EXCEPT ![c] = "done"]
            /\ UNCHANGED <<cancelledBy, tokenSource, calledClose, hostq,
                           closeRequested, winid>>
       ELSE IF empty
         THEN Close(c, hostq)
         ELSE /\ cancelledBy' = Cancel(c)
              /\ tokenSource' = c
              /\ hostq' = Append(hostq, Request(c, "get_float_mode", 0, 0, 0))
              /\ pc' = [pc EXCEPT ![c] = "get_float_mode"]
              /\ UNCHANGED <<calledClose, closeRequested, winid>>
  /\ UNCHANGED <<supported, bufnr, targetBufnr, floatBuffer, openedWin, threw>>
  /\ UNCHANGED hostvars
  /\ UNCHANGED <<cvars, pvars, gvars>>

\* close() called by an event handler (onBufEnter, MenuPopupChanged,
\* _onCursorMoved): up to its await.
CloseEvent(c) ==
  /\ CanCall(c)
  /\ kind' = [kind EXCEPT ![c] = "close"]
  /\ Close(c, hostq)
  /\ UNCHANGED <<supported, bufnr, targetBufnr, floatBuffer, docsEmpty,
                 openedWin, threw>>
  /\ UNCHANGED hostvars
  /\ UNCHANGED <<cvars, pvars, gvars>>

\* The host answers coc#util#get_float_mode (arr, or nothing); createPopup
\* runs on to its await of getWindowConfig.
GetFloatModeReturns(c, arrOk, target) ==
  /\ Answering(c, "get_float_mode")
  /\ IF ~arrOk \/ IsCancelled(c)
       THEN /\ pc' = [pc EXCEPT ![c] = "done"]
            /\ hostq' = Tail(hostq)
            /\ UNCHANGED <<targetBufnr, cancelledBy, tokenSource, calledClose,
                           closeRequested, winid>>
       ELSE IF docsEmpty[c]
         THEN Close(c, Tail(hostq)) /\ UNCHANGED targetBufnr
         ELSE /\ targetBufnr' = target
              /\ hostq' = Append(Tail(hostq), Request(c, "getWindowConfig", 0, 0, 0))
              /\ pc' = [pc EXCEPT ![c] = "getWindowConfig"]
              /\ UNCHANGED <<cancelledBy, tokenSource, calledClose,
                             closeRequested, winid>>
  /\ UNCHANGED <<supported, bufnr, floatBuffer, kind, docsEmpty, openedWin, threw>>
  /\ UNCHANGED hostvars
  /\ UNCHANGED <<cvars, pvars, gvars>>

\* getWindowConfig returns (its last await is a request to the host):
\* nothing, a config with width or height <= 0, or a usable config.
\* createPopup runs on to its await of floatBuffer.setDocuments, which
\* computes the lines of docs as it is called.
GetWindowConfigReturns(c, config) ==
  /\ Answering(c, "getWindowConfig")
  /\ CASE config = "none" ->
            /\ pc' = [pc EXCEPT ![c] = "done"]
            /\ hostq' = Tail(hostq)
            /\ UNCHANGED <<floatBuffer, cancelledBy, tokenSource, calledClose,
                           closeRequested, winid>>
       [] config = "empty" ->
            /\ Close(c, Tail(hostq))
            /\ UNCHANGED floatBuffer
       [] OTHER ->
            /\ floatBuffer' = c
            /\ pc' = [pc EXCEPT ![c] = "setDocuments"]
            /\ hostq' = Tail(hostq)
            /\ UNCHANGED <<cancelledBy, tokenSource, calledClose,
                           closeRequested, winid>>
  /\ UNCHANGED <<supported, bufnr, targetBufnr, kind, docsEmpty, openedWin, threw>>
  /\ UNCHANGED hostvars
  /\ UNCHANGED <<cvars, pvars, gvars>>

\* floatBuffer.setDocuments resolves; createPopup runs on to its await of
\* coc#util#create_float_win(this.winid, this.bufnr, config).
SetDocumentsReturns(c) ==
  /\ pc[c] = "setDocuments"
  /\ IF IsCancelled(c)
       THEN /\ pc' = [pc EXCEPT ![c] = "done"]
            /\ UNCHANGED hostq
       ELSE /\ hostq' = Append(hostq, Request(c, "create_float_win", winid, bufnr, 0))
            /\ pc' = [pc EXCEPT ![c] = "create_float_win"]
  /\ UNCHANGED <<supported, winid, bufnr, targetBufnr, tokenSource, floatBuffer,
                 kind, docsEmpty, cancelledBy, openedWin, closeRequested,
                 calledClose, threw>>
  /\ UNCHANGED hostvars
  /\ UNCHANGED <<cvars, pvars, gvars>>

\* The host answers coc#util#create_float_win(winid, bufnr, config): a valid
\* float window winid is reconfigured and returned; otherwise a new window
\* is opened, on buffer bufnr when there is one and on a new buffer when
\* not, and returned (or nothing is returned: no window could be opened).
\* createPopup then records the window, queues the notifications that fill
\* it (win_gotoid, setLines, addHighlight, normal! gg0) and awaits
\* resumeNotification.
CreateFloatWinReturns(c, resOk) ==
  /\ Answering(c, "create_float_win")
  /\ LET req == Head(hostq)
         reuse == req.win # 0 /\ req.win \in wins
         w == IF reuse THEN req.win ELSE nextWin
         b == IF reuse THEN winBuf[w] ELSE IF req.buf # 0 THEN req.buf ELSE nextWin
         res == reuse \/ resOk
     IN /\ IF res /\ ~reuse
             THEN /\ wins' = wins \cup {w}
                  /\ winBuf' = [winBuf EXCEPT ![w] = b]
                  /\ nextWin' = nextWin + 1
             ELSE UNCHANGED <<wins, winBuf, nextWin>>
        /\ IF ~res \/ IsCancelled(c)
             THEN /\ pc' = [pc EXCEPT ![c] = "done"]
                  /\ hostq' = Tail(hostq)
                  /\ UNCHANGED <<winid, bufnr, openedWin>>
             ELSE /\ winid' = w
                  /\ bufnr' = b
                  /\ openedWin' = [openedWin EXCEPT ![c] = w]
                  /\ hostq' = Append(Tail(hostq), Request(c, "setLines", w, b, floatBuffer))
                  /\ pc' = [pc EXCEPT ![c] = "resumeNotification"]
  /\ UNCHANGED <<supported, targetBufnr, tokenSource, floatBuffer, kind, docsEmpty,
                 cancelledBy, bufLines, closeRequested, calledClose, threw>>
  /\ UNCHANGED <<cvars, pvars, gvars>>

\* The answer to resumeNotification with a create() whose catch clause logs the
\* error and does not call close().
ResumeNotificationReturnsNoClose(c, err, mode) ==
  /\ Answering(c, "setLines")
  /\ LET req == Head(hostq)
     IN bufLines' = [bufLines EXCEPT ![req.buf] = req.lines]
  /\ threw' = IF err THEN threw \cup {c} ELSE threw
  /\ pc' = [pc EXCEPT ![c] =
              IF ~err /\ mode = "s" /\ ~IsCancelled(c) THEN "selectCurrentPlaceholder"
              ELSE "done"]
  /\ hostq' = Tail(hostq)
  /\ UNCHANGED <<cancelledBy, tokenSource, calledClose, closeRequested, winid>>
  /\ UNCHANGED <<supported, bufnr, targetBufnr, floatBuffer, kind, docsEmpty,
                 openedWin, wins, winBuf, nextWin>>
  /\ UNCHANGED <<cvars, pvars, gvars>>

\* The host runs the batch that fills the popup and answers
\* resumeNotification, with an error or without.  On an error createPopup
\* throws and create() catches it and calls close(); otherwise, in select
\* mode and not cancelled, createPopup awaits the snippet manager.
ResumeNotificationReturns(c, err, mode) ==
  /\ Answering(c, "setLines")
  /\ LET req == Head(hostq)
     IN bufLines' = [bufLines EXCEPT ![req.buf] = req.lines]
  /\ IF err
       THEN /\ threw' = threw \cup {c}
            /\ Close(c, Tail(hostq))
       ELSE /\ pc' = [pc EXCEPT ![c] =
                        IF mode = "s" /\ ~IsCancelled(c) THEN "selectCurrentPlaceholder"
                        ELSE "done"]
            /\ hostq' = Tail(hostq)
            /\ UNCHANGED <<threw, cancelledBy, tokenSource, calledClose,
                           closeRequested, winid>>
  /\ UNCHANGED <<supported, bufnr, targetBufnr, floatBuffer, kind, docsEmpty,
                 openedWin, wins, winBuf, nextWin>>
  /\ UNCHANGED <<cvars, pvars, gvars>>

\* snippetManager.selectCurrentPlaceholder and delay(50) are over.
SelectReturns(c) ==
  /\ pc[c] = "selectCurrentPlaceholder"
  /\ pc' = [pc EXCEPT ![c] = "done"]
  /\ UNCHANGED <<supported, winid, bufnr, targetBufnr, tokenSource, floatBuffer,
                 kind, docsEmpty, cancelledBy, hostq, openedWin, closeRequested,
                 calledClose, threw>>
  /\ UNCHANGED hostvars
  /\ UNCHANGED <<cvars, pvars, gvars>>

\* The host runs coc#util#close_win(winid) and answers close()'s
\* resumeNotification; close() returns, and so does its caller.
CloseReturns(c) ==
  /\ Answering(c, "close_win")
  /\ wins' = wins \ {Head(hostq).win}
  /\ hostq' = Tail(hostq)
  /\ pc' = [pc EXCEPT ![c] = "done"]
  /\ UNCHANGED <<supported, winid, bufnr, targetBufnr, tokenSource, floatBuffer,
                 kind, docsEmpty, cancelledBy, openedWin, closeRequested,
                 calledClose, threw, winBuf, bufLines, nextWin>>
  /\ UNCHANGED <<cvars, pvars, gvars>>

FactoryNext ==
  \/ \E c \in Calls, empty \in BOOLEAN : Create(c, empty)
  \/ \E c \in Calls : CloseEvent(c)
  \/ \E c \in Calls, arrOk \in BOOLEAN, target \in TargetBufnrs :
       GetFloatModeReturns(c, arrOk, target)
  \/ \E c \in Calls, config \in {"none", "empty", "ok"} : GetWindowConfigReturns(c, config)
  \/ \E c \in Calls : SetDocumentsReturns(c)
  \/ \E c \in Calls, resOk \in BOOLEAN : CreateFloatWinReturns(c, resOk)
  \/ \E c \in Calls, err \in BOOLEAN, mode \in {"s", "n"} :
       ResumeNotificationReturns(c, err, mode)
  \/ \E c \in Calls : SelectReturns(c)
  \/ \E c \in Calls : CloseReturns(c)

\* The factory alone: the other parts stay as constructed.
Init == FactoryInit /\ ColumnIdle /\ PresetIdle /\ GeometryIdle

Next == FactoryNext

Spec == Init /\ [][Next]_vars

\* ------------------------------------------- FloatingFactory3: properties

\* The awaits of createPopup.
InCreatePopup ==
  {"get_float_mode", "getWindowConfig", "setDocuments", "create_float_win",
   "resumeNotification", "selectCurrentPlaceholder"}

\* The request sent to the host in this step, as a sequence of 0 or 1
\* requests (an answer takes the head of hostq away; a step sends at most
\* one request, at the end of hostq).
Sent ==
  IF Len(hostq') > Len(hostq) \/ (Len(hostq') = Len(hostq) /\ hostq' # hostq)
    THEN <<hostq'[Len(hostq')]>>
    ELSE << >>

\* Call c takes a step.
Steps(c) == pc'[c] # pc[c]
\* Call c is made in this step.
Called(c) == kind[c] = "none" /\ kind'[c] # "none"
\* Call c calls this.close() in this step.
CallsClose(c) == c \notin calledClose /\ c \in calledClose'
\* Call c, which called this.close(), returns from it in this step.
ReturnsFromClose(c) == c \in calledClose' /\ pc[c] # "done" /\ pc'[c] = "done"

\* C1 (as claimed): close() with winid # 0 sends exactly one
\* coc#util#close_win request for that winid, and winid is 0 and tokenSource
\* is undefined when close() returns; with winid = 0 it sends nothing;
\* close() never changes bufnr.
C1_CloseAsClaimed ==
  [][\A c \in Calls :
       /\ CallsClose(c) =>
            /\ bufnr' = bufnr
            /\ IF winid # 0
                 THEN Sent = <<Request(c, "close_win", winid, 0, 0)>>
                 ELSE Sent = << >>
       /\ ReturnsFromClose(c) =>
            /\ winid' = 0
            /\ tokenSource' = 0
            /\ bufnr' = bufnr]_vars

\* C1 (amended): as claimed, but winid is 0 and tokenSource is undefined when
\* close() has sent its request (before it awaits the host); when close()
\* returns winid is still 0, and tokenSource is undefined or the source of a
\* create() that was called while close() awaited the host.
C1_Close ==
  [][\A c \in Calls :
       /\ CallsClose(c) =>
            /\ bufnr' = bufnr
            /\ winid' = 0
            /\ tokenSource' = 0
            /\ IF winid # 0
                 THEN Sent = <<Request(c, "close_win", winid, 0, 0)>>
                 ELSE Sent = << >>
       /\ ReturnsFromClose(c) =>
            /\ winid' = 0
            /\ tokenSource' = 0 \/ (tokenSource' > c /\ kind'[tokenSource'] = "create")
            /\ bufnr' = bufnr]_vars

\* C1 witness: a close() that found a popup has sent its request and awaits
\* the host, with the popup and the token source cleared.
C1_Witness ==
  \E c \in Calls :
    /\ kind[c] = "close"
    /\ pc[c] = "closing"
    /\ winid = 0
    /\ tokenSource = 0
    /\ bufnr # 0

\* C4: create() with nothing to show (float supported) sends no
\* coc#util#create_float_win request, cancels the createPopup in flight,
\* sends the close request of an open popup, and returns with winid = 0.
C4_EmptyCreateHides ==
  [][\A c \in Calls :
       (supported /\ kind'[c] = "create" /\ docsEmpty'[c]) =>
         /\ Steps(c) =>
              \A i \in 1..Len(Sent) : Sent[i].req # "create_float_win"
         /\ Called(c) =>
              /\ \A d \in Calls : pc[d] \in InCreatePopup => cancelledBy'[d] # 0
              /\ tokenSource' = 0
              /\ winid # 0 => Sent = <<Request(c, "close_win", winid, 0, 0)>>
         /\ (pc[c] # "done" /\ pc'[c] = "done") => winid' = 0]_vars

\* C4 witness: a create() with nothing to show found a popup open and a
\* createPopup in flight, cancelled it, and awaits the close of the popup.
C4_Witness ==
  \E c \in Calls, d \in Calls :
    /\ supported
    /\ kind[c] = "create" /\ docsEmpty[c]
    /\ pc[c] = "closing"
    /\ pc[d] \in InCreatePopup
    /\ cancelledBy[d] = c

\* C5: a create() or close() called while an earlier createPopup is in
\* flight cancels its token, and from then on the earlier call never assigns
\* winid or bufnr and never sends the notifications that write lines and
\* highlights into the popup and move its cursor.
C5_Supersedes ==
  [][\A c \in Calls :
       /\ (supported /\ pc[c] \in InCreatePopup /\ \E d \in Calls : Called(d)) =>
            cancelledBy'[c] # 0
       /\ (IsCancelled(c) /\ Steps(c)) =>
            /\ winid' = winid
            /\ bufnr' = bufnr
            /\ \A i \in 1..Len(Sent) : Sent[i].req # "setLines"]_vars

\* C6: no orphan popup: every open window of the factory for which no close
\* request was sent is the one recorded in winid.
C6_NoOrphanPopup ==
  \A w \in wins : w = winid \/ w \in closeRequested

\* C7: a createPopup cancelled by a later create() never cancels another
\* token and never calls close().
C7_SupersededIsHarmless ==
  [][\A c \in Calls :
       (IsCancelled(c) /\ kind[cancelledBy[c]] = "create" /\ Steps(c)) =>
         /\ cancelledBy' = cancelledBy
         /\ c \notin calledClose'
         /\ closeRequested' = closeRequested]_vars

\* Every call made has returned and the host has answered every request.
Settled == hostq = << >> /\ \A c \in Calls : pc[c] \in {"idle", "done"}
\* The create() called last.
LastCreate ==
  LET made == {c \in Calls : kind[c] = "create"}
  IN CHOOSE c \in made : \A d \in made : d <= c

\* C8: once the calls have settled with a popup open, its lines are those of
\* the docs of the create() called last; and a cancelled createPopup never
\* changes the floatBuffer nor targetBufnr.
C8_LastRequestWins ==
  [][/\ (Settled' /\ winid' # 0 /\ winid' \in wins') =>
          bufLines'[winBuf'[winid']] = LastCreate'
     /\ \A c \in Calls :
          (IsCancelled(c) /\ Steps(c)) =>
            /\ floatBuffer' = floatBuffer
            /\ targetBufnr' = targetBufnr]_vars

\* C9: when createPopup throws, create() catches the error (it calls close()
\* and returns normally), and when it returns winid is 0 and a close request
\* has been sent for the window createPopup had opened.
C9_ErrorsContained ==
  [][\A c \in Calls :
       c \in threw' =>
         /\ c \in calledClose'
         /\ pc'[c] \in {"closing", "done"}
         /\ (pc[c] # "done" /\ pc'[c] = "done") =>
              /\ winid' = 0
              /\ openedWin'[c] # 0
              /\ openedWin'[c] \in closeRequested']_vars

\* C9 witness: a create() whose createPopup threw after it had opened a
\* window has returned.
C9_Witness ==
  \E c \in Calls :
    /\ c \in threw
    /\ pc[c] = "done"
    /\ openedWin[c] # 0
    /\ openedWin[c] \in closeRequested
    /\ winid = 0

\* --------------------------------------------------------- child columns
\* Cells one row can take.
MaxColumns == 3

\* The nerd-font glyph of the readonly column (one character, U+E0A2).
NerdfontLock == "U+E0A2"

Nodes == [readonly : BOOLEAN, fullpath : {"/a", "/b/c"}]

\* row.add(content, {hl}): one more cell on the row.
RowAdd(r, content, hl) == Append(r, [content |-> content, hl |-> hl])

\* The readonly column without its guard on node.readonly.
DrawNodeReadonlyUnguarded(r, n, nerd) ==
  RowAdd(r, IF n.readonly THEN (IF nerd THEN NerdfontLock ELSE "RO") ELSE "",
         "fileHighlights.readonly")

\* drawNode of the file source's 'readonly' child column.
DrawNodeReadonly(r, n, nerd) ==
  IF n.readonly
    THEN RowAdd(r, IF n.readonly THEN (IF nerd THEN NerdfontLock ELSE "RO") ELSE "",
                "fileHighlights.readonly")
    ELSE r

\* labelVisible of the 'readonly' child column.
LabelVisible(n) == n.readonly

\* drawNode of the buffer source's 'fullpath' child column.
DrawNodeFullpath(r, n) == RowAdd(r, n.fullpath, "bufferHighlights.fullpath")

ColumnInit ==
  /\ enabledNerdFont \in BOOLEAN
  /\ node \in Nodes
  /\ row = << >>
  /\ columns = << >>

\* The 'readonly' column is drawn on the row.
DrawReadonly ==
  /\ Len(columns) < MaxColumns
  /\ row' = DrawNodeReadonly(row, node, enabledNerdFont)
  /\ columns' = Append(columns, "readonly")
  /\ UNCHANGED <<enabledNerdFont, node>>
  /\ UNCHANGED <<fvars, pvars, gvars>>

\* The 'fullpath' column is drawn on the row.
DrawFullpath ==
  /\ Len(columns) < MaxColumns
  /\ row' = DrawNodeFullpath(row, node)
  /\ columns' = Append(columns, "fullpath")
  /\ UNCHANGED <<enabledNerdFont, node>>
  /\ UNCHANGED <<fvars, pvars, gvars>>

\* The row of another node is started.
NextNode(n) ==
  /\ columns # << >>
  /\ node' = n
  /\ row' = << >>
  /\ columns' = << >>
  /\ UNCHANGED enabledNerdFont
  /\ UNCHANGED <<fvars, pvars, gvars>>

ColumnNext ==
  \/ DrawReadonly
  \/ DrawFullpath
  \/ \E n \in Nodes : NextNode(n)

\* The columns alone.
ColumnSpecInit == ColumnInit /\ FactoryIdle /\ PresetIdle /\ GeometryIdle

ColumnSpec == ColumnSpecInit /\ [][ColumnNext]_vars

\* C2: drawing the readonly column adds exactly one cell for a readonly node
\* and none otherwise; the cell is never empty ('RO' without nerd font, the
\* glyph with it) and carries the readonly highlight; labelVisible(node) is
\* true exactly when a cell is added.
C2_ReadonlyColumn ==
  [][columns' = Append(columns, "readonly") =>
       LET added == SubSeq(row', Len(row) + 1, Len(row'))
       IN /\ Len(row') >= Len(row)
          /\ SubSeq(row', 1, Len(row)) = row
          /\ Len(added) = (IF node.readonly THEN 1 ELSE 0)
          /\ \A i \in 1..Len(added) :
               /\ added[i].content # ""
               /\ added[i].content = (IF enabledNerdFont THEN NerdfontLock ELSE "RO")
               /\ added[i].hl = "fileHighlights.readonly"
          /\ LabelVisible(node) <=> (Len(added) = 1)]_vars

\* C2 witness: the readonly column has drawn the glyph for a readonly node,
\* after another column's cell.
C2_Witness ==
  /\ Len(columns) = 2
  /\ columns[2] = "readonly"
  /\ node.readonly
  /\ enabledNerdFont
  /\ Len(row) = 2
  /\ row[2].content = NerdfontLock

\* ------------------------------------------------------------ PresetList
\* Runs of the 'do' action.
MaxCommands == 2

PresetNames == {"floating", "tab", "my preset"}
PresetValues == {"left"}

\* The dictionaries getPresets can return, as their entries in key order:
\* no key twice.
Dictionaries ==
  {d \in UNION {[1..n -> [key : PresetNames, value : PresetValues]] :
           n \in 0..Cardinality(PresetNames)} :
     \A i, j \in 1..Len(d) : d[i].key = d[j].key => i = j}

\* Object.keys(presets)
ObjectKeys(d) == [i \in 1..Len(d) |-> d[i].key]

\* loadItems that gives the label as the name of every item but the first,
\* which gets the label of the last.
LoadItemsResultShifted(d) ==
  [i \in 1..Len(d) |->
     [label |-> ObjectKeys(d)[i],
      data |-> [name |-> ObjectKeys(d)[IF i = 1 THEN Len(d) ELSE i]]]]

\* What loadItems returns for the dictionary d.
LoadItemsResult(d) ==
  [i \in 1..Len(d) |->
     [label |-> ObjectKeys(d)[i], data |-> [name |-> ObjectKeys(d)[i]]]]

\* The command of the 'do' action for an item.
DoCommand(item) == "CocCommand explorer --preset " \o item.data.name

PresetInit ==
  /\ presets \in Dictionaries
  /\ items = << >>
  /\ loadedFrom = << >>
  /\ commands = << >>
  /\ chosen = << >>

\* The configuration changes: getPresets returns another dictionary.
ConfigChanges(d) ==
  /\ d # presets
  /\ presets' = d
  /\ UNCHANGED <<items, loadedFrom, commands, chosen>>
  /\ UNCHANGED <<fvars, cvars, gvars>>

\* loadItems(context)
LoadItems ==
  /\ items' = LoadItemsResult(presets)
  /\ loadedFrom' = presets
  /\ UNCHANGED <<presets, commands, chosen>>
  /\ UNCHANGED <<fvars, cvars, gvars>>

\* The default action 'do' is run on the i-th item of the list.
DoAction(i) ==
  /\ Len(commands) < MaxCommands
  /\ i \in 1..Len(items)
  /\ commands' = Append(commands, DoCommand(items[i]))
  /\ chosen' = Append(chosen, items[i].label)
  /\ UNCHANGED <<presets, items, loadedFrom>>
  /\ UNCHANGED <<fvars, cvars, gvars>>

PresetNext ==
  \/ \E d \in Dictionaries : ConfigChanges(d)
  \/ LoadItems
  \/ \E i \in 1..Cardinality(PresetNames) : DoAction(i)

\* The preset list alone.
PresetSpecInit == PresetInit /\ FactoryIdle /\ ColumnIdle /\ GeometryIdle

PresetSpec == PresetSpecInit /\ [][PresetNext]_vars

\* C3: the items loadItems returned are one per key of the dictionary it
\* read and none else, each with label = data.name = that key; and each run
\* of 'do' on an item issued exactly once the command
\* 'CocCommand explorer --preset <name>' with the item's name.
C3_PresetRoundTrip ==
  LET keys == {loadedFrom[i].key : i \in 1..Len(loadedFrom)}
  IN /\ \A k \in keys :
          Cardinality({i \in 1..Len(items) : items[i].label = k}) = 1
     /\ \A i \in 1..Len(items) :
          /\ items[i].label \in keys
          /\ items[i].data.name = items[i].label
     /\ Len(commands) = Len(chosen)
     /\ \A j \in 1..Len(chosen) :
          commands[j] = "CocCommand explorer --preset " \o chosen[j]

\* C3 witness: two presets are listed and 'do' was run on the second.
C3_Witness ==
  /\ Len(items) = 2
  /\ chosen = <<items[2].label>>
  /\ commands = <<"CocCommand explorer --preset my preset">>

\* ------------------------------------------- getWindowConfig: alignTop
\* Screen lines of the editor.
MaxLines == 5

Min(a, b) == IF a < b THEN a ELSE b

\* The max height that leaves out the cursor row.
MaxHeightNoRow(pLines, pWinRow, pMaxHeight) ==
  Min(pLines - 1, IF pMaxHeight # 0 THEN pMaxHeight ELSE pLines)

\* The max height given to FloatBuffer.getDimension: alignTop is still false
\* where it is computed, so it is lines - winRow - 1, capped by
\* this.maxHeight || lines.
MaxHeightGiven(pLines, pWinRow, pMaxHeight) ==
  Min(pLines - pWinRow - 1, IF pMaxHeight # 0 THEN pMaxHeight ELSE pLines)

\* The heights FloatBuffer.getDimension may return for a max height: 0 when
\* there is no room, and never more than the max height.
DimensionHeights(maxH) == {h \in 0..MaxLines : h <= maxH \/ h = 0}

\* The alignTop getWindowConfig selects.
AlignTop(pPreferTop, pLines, pWinRow, pHeight) ==
  IF ~pPreferTop
    THEN pLines - pWinRow < pHeight /\ pWinRow > pHeight
    ELSE pWinRow >= pHeight \/ pWinRow >= pLines - pWinRow

GeometryInit ==
  /\ preferTop \in BOOLEAN
  /\ maxHeight \in 0..MaxLines
  /\ lines \in 0..MaxLines
  /\ winRow \in 0..MaxLines
  /\ previewHeight = 0
  /\ alignTop = FALSE
  /\ gpc = "start"

\* getWindowConfig, up to this.alignTop = alignTop.
GetWindowConfig(h) ==
  /\ gpc = "start"
  /\ h \in DimensionHeights(MaxHeightGiven(lines, winRow, maxHeight))
  /\ previewHeight' = h
  /\ alignTop' = AlignTop(preferTop, lines, winRow, h)
  /\ gpc' = "done"
  /\ UNCHANGED <<preferTop, maxHeight, lines, winRow>>
  /\ UNCHANGED <<fvars, cvars, pvars>>

GeometryNext == \E h \in 0..MaxLines : GetWindowConfig(h)

\* getWindowConfig alone.
GeometrySpecInit == GeometryInit /\ FactoryIdle /\ ColumnIdle /\ PresetIdle

GeometrySpec == GeometrySpecInit /\ [][GeometryNext]_vars

\* C10: whenever getWindowConfig selects alignTop = true, the popup height is
\* at most winRow.
C10_TopPopupFits ==
  (gpc = "done" /\ alignTop) => previewHeight <= winRow

\* C10 witness: with preferTop, a popup as high as the rows above the cursor
\* is aligned above it.
C10_Witness ==
  /\ gpc = "done"
  /\ alignTop
  /\ preferTop
  /\ previewHeight > 0
  /\ previewHeight = winRow

\* C11: with preferTop = false there are dimensions (lines, winRow), a
\* configured maxHeight and a height that FloatBuffer.getDimension returns
\* within the max height it was given, for which getWindowConfig selects
\* alignTop = true (the branch of lines 142-144 is reachable).
C11_MovedAboveWhenNoRoomBelow ==
  ~preferTop =>
    \E pLines \in 0..MaxLines, pWinRow \in 0..MaxLines, pMaxHeight \in 0..MaxLines :
      \E h \in DimensionHeights(MaxHeightGiven(pLines, pWinRow, pMaxHeight)) :
        /\ h <= MaxHeightGiven(pLines, pWinRow, pMaxHeight)
        /\ AlignTop(preferTop, pLines, pWinRow, h)

\* What getWindowConfig does instead: with preferTop = false and a height
\* within the max height given, alignTop stays false.
C11_BranchNeverTaken ==
  (gpc = "done" /\ ~preferTop
     /\ previewHeight <= MaxHeightGiven(lines, winRow, maxHeight)) => ~alignTop

====
